---- MODULE Spec2Model ----
(***************************************************************************)
(* Replay-matching engine of capturemock (capturemock/replayinfo.py):      *)
(* ReplayInfo parses a recorded trace into an ordered map from request key *)
(* to a ReplayedResponseHandler, and readReplayResponses resolves a live   *)
(* traffic description to one recorded generation, exactly or by the       *)
(* closest key.                                                            *)
(*                                                                         *)
(* Strings are sequences of one-character strings, so that prefixes,       *)
(* slices, stripping and splitting are computed as Python computes them.   *)
(* A handler object is identified by its position in responseMap: the map  *)
(* is insertion-ordered and entries are never removed.                     *)
(***************************************************************************)
EXTENDS Integers, Sequences, FiniteSets, TLC

VARIABLES trafficList, exactMatching, responseMap, last, calls, srvCalls,
          threads, lock,
          replayScript, idleHandlers, idleQueue, stdout

\* the callers of one ReplayInfo and the lock they may share
threadVars == <<threads, lock>>

\* the replay script of gtkscript, the idle handlers, the idle callbacks that
\* gtk holds and the lines printed
gtkVars == <<replayScript, idleHandlers, idleQueue, stdout>>

vars == <<trafficList, exactMatching, responseMap, last, calls, srvCalls,
          threads, lock, replayScript, idleHandlers, idleQueue, stdout>>

(***************************************************************************)
(* Bounds of the model.                                                    *)
(***************************************************************************)
MaxTrace == 3
MaxCalls == 3
MaxNestedTrace == 4
MaxFuzzyTrace == 3
MaxParseTrace == 4
MaxResponseTrace == 4
MaxKeyLen == 4
MaxThreadTrace == 3
NumThreads == 2
MaxScript == 3

(***************************************************************************)
(* String literals.                                                        *)
(***************************************************************************)
SRV == <<"<", "-", "S", "R", "V">>
PYT == <<"<", "-", "P", "Y", "T">>
InMarker == <<"<", "-">>
Whitespace == {" ", "\n", "\t", "\r"}
None == "None"

\* chunks a trace is made of (as readIntoList produces them, newline kept)
SrvA == <<"<", "-", "S", "R", "V", ":", "A", "\n">>
SrvB == <<"<", "-", "S", "R", "V", ":", "B", "\n">>
PytFoo == <<"<", "-", "P", "Y", "T", ":", "f", "o", "o", "\n">>
CmdBarX == <<"<", "-", "C", "M", "D", ":", "b", "a", "r", "(", "x", ")", "\n">>
OutR == <<"-", ">", "O", "U", "T", ":", "r", "\n">>
PytFooY == <<"<", "-", "P", "Y", "T", ":", "f", "o", "o", "(", "y", ")", "\n">>

ErrE == <<"-", ">", "E", "R", "R", ":", "e", "\n">>

Chunks == {SrvA, SrvB, PytFoo, CmdBarX, OutR}

\* the chunks of the traces resolved by several callers: one key, which never
\* has intermediate sets, and its responses
ThreadChunks == {CmdBarX, OutR}

\* the chunks of the traces whose generations hold lines of several types
ResponseChunks == {PytFoo, OutR, ErrE}

\* the chunks of the traces of nested calls
NestedChunks == {PytFoo, PytFooY, CmdBarX, OutR}

\* the chunks of the traces whose keys share tokens
BuildXRelease ==
    <<"<", "-", "C", "M", "D", ":", "b", "u", "i", "l", "d", " ", "/", "o",
      "p", "t", "/", "x", " ", "(", "r", "e", "l", "e", "a", "s", "e", ")",
      "\n">>
BuildYDebug ==
    <<"<", "-", "C", "M", "D", ":", "b", "u", "i", "l", "d", " ", "/", "o",
      "p", "t", "/", "y", " ", "(", "d", "e", "b", "u", "g", ")", "\n">>
MakeXDebug ==
    <<"<", "-", "C", "M", "D", ":", "m", "a", "k", "e", " ", "/", "o", "p",
      "t", "/", "x", " ", "(", "d", "e", "b", "u", "g", ")", "\n">>
PytXDebug ==
    <<"<", "-", "P", "Y", "T", ":", "b", "u", "i", "l", "d", " ", "/", "o",
      "p", "t", "/", "x", " ", "(", "d", "e", "b", "u", "g", ")", "\n">>

FuzzyChunks == {BuildXRelease, BuildYDebug, MakeXDebug, PytXDebug}

\* descriptions of live traffic (traffic.getDescription())
QSrvC == <<"<", "-", "S", "R", "V", ":", "C">>
QPytFoo == <<"<", "-", "P", "Y", "T", ":", "f", "o", "o">>
QCmdBarX == <<"<", "-", "C", "M", "D", ":", "b", "a", "r", "(", "x", ")">>
QCmdBarZ == <<"<", "-", "C", "M", "D", ":", "b", "a", "r", "(", "z", ")">>
QPytBazX == <<"<", "-", "P", "Y", "T", ":", "b", "a", "z", "(", "x", ")">>

Descriptions == {QSrvC, QPytFoo, QCmdBarX, QCmdBarZ, QPytBazX}

\* descriptions resolved against the traces of nested calls and of keys that
\* share tokens
QPytFooX == <<"<", "-", "P", "Y", "T", ":", "f", "o", "o", "(", "x", ")">>
QBuildXDebug ==
    <<"<", "-", "C", "M", "D", ":", "b", "u", "i", "l", "d", " ", "/", "o",
      "p", "t", "/", "x", " ", "(", "d", "e", "b", "u", "g", ")">>
QMakeYDebug ==
    <<"<", "-", "C", "M", "D", ":", "m", "a", "k", "e", " ", "/", "o", "p",
      "t", "/", "y", " ", "(", "d", "e", "b", "u", "g", ")">>

NestedDescriptions == {QPytFoo, QPytFooX, QCmdBarX, QCmdBarZ}
FuzzyDescriptions == {QBuildXDebug, QMakeYDebug}

\* the prefixes looked for by findResponseToTrafficStartingWith
Prefixes == {<<"f", "o", "o">>, <<"b", "a", "r">>}

\* the characters of the keys given to the tokenizer: two letters, the four
\* separator characters and two whitespace characters
KeyChars == {"a", "b", "/", "(", ")", "\\", " ", "\n"}

\* the traffic objects that carry no information (traffic.hasInfo() is false)
NoInfoDescriptions == {QPytFoo}

\* the calls made: a traffic object and the exact flag
Requests ==
    {[description |-> d, hasInfo |-> TRUE, exact |-> e] :
        d \in Descriptions, e \in BOOLEAN}
    \cup {[description |-> d, hasInfo |-> FALSE, exact |-> e] :
        d \in NoInfoDescriptions, e \in BOOLEAN}

\* the caller-supplied response classes, each identified by its typeId
ClassLists == {<< <<"O", "U", "T">> >>}

\* class lists that match none, one or both of the types recorded, and one
\* with two classes of the same typeId
OUT == <<"O", "U", "T">>
ERR == <<"E", "R", "R">>
ResponseClassLists == {<<>>, <<OUT>>, <<ERR, OUT>>, <<OUT, OUT>>}

(***************************************************************************)
(* A value that an operator uses several times is bound over a singleton   *)
(* set (CHOOSE r \in {f(x) : x \in {e}} : TRUE, or \E x \in {e} : P(x)), so  *)
(* that TLC evaluates it once.                                             *)
(***************************************************************************)

(***************************************************************************)
(* Python string operations.                                               *)
(***************************************************************************)
Min(a, b) == IF a < b THEN a ELSE b

\* s.startswith(p)
startswith(s, p) == Len(s) >= Len(p) /\ SubSeq(s, 1, Len(p)) = p

\* c in s, for a one-character c
contains(s, c) == \E i \in 1..Len(s) : s[i] = c

\* s[lo:hi] and s[lo:] with 0-based offsets, tolerant of short strings
slice(s, lo, hi) == SubSeq(s, lo + 1, Min(hi, Len(s)))
sliceFrom(s, lo) == SubSeq(s, lo + 1, Len(s))

\* s.strip()
strip(s) ==
    LET nonWs == {i \in 1..Len(s) : s[i] \notin Whitespace}
    IN  IF nonWs = {} THEN <<>>
        ELSE LET lo == CHOOSE i \in nonWs : \A j \in nonWs : i <= j
                 hi == CHOOSE i \in nonWs : \A j \in nonWs : i >= j
             IN  SubSeq(s, lo, hi)

(***************************************************************************)
(* ReplayedResponseHandler.                                                *)
(***************************************************************************)
\* __init__
ReplayedResponseHandler(key) ==
    [key |-> key, timesChosen |-> 0, responses |-> << <<>> >>,
     intermediateHandlers |-> <<>>]

addIntermediate(h, handlers) ==
    [h EXCEPT !.intermediateHandlers = Append(@, handlers)]

\* variant: a new generation replaces the generations recorded so far
newResponseOverwriting(h) == [h EXCEPT !.responses = << <<>> >>]

newResponse(h) == [h EXCEPT !.responses = Append(@, <<>>)]

\* variant: the line is added to the first generation
addResponseToFirst(h, trafficStr) ==
    [h EXCEPT !.responses[1] = Append(@, trafficStr)]

addResponse(h, trafficStr) ==
    [h EXCEPT !.responses[Len(h.responses)] = Append(@, trafficStr)]

getUnmatchedResponseCount(h) == Len(h.responses) - h.timesChosen

(***************************************************************************)
(* ReplayInfo: parsing.                                                    *)
(***************************************************************************)
\* variant: server traffic is not collapsed to the one key
getTrafficLookupKeyVerbatim(trafficStr) == trafficStr

getTrafficLookupKey(trafficStr) ==
    IF startswith(trafficStr, SRV) THEN SRV ELSE trafficStr

\* position of key in the map, 0 when absent (responseMap.get / in)
find(rm, key) ==
    IF \E i \in 1..Len(rm) : rm[i].key = key
    THEN CHOOSE i \in 1..Len(rm) : rm[i].key = key
    ELSE 0

\* the handlers inserted after curr whose key has a parenthesis, in map order
RECURSIVE intermediateFrom(_, _)
intermediateFrom(rm, i) ==
    IF i > Len(rm) THEN <<>>
    ELSE (IF contains(rm[i].key, "(") THEN <<i>> ELSE <<>>)
         \o intermediateFrom(rm, i + 1)

registerIntermediateCalls(rm, curr) ==
    [rm EXCEPT ![curr] = addIntermediate(@, intermediateFrom(rm, curr + 1))]

\* one iteration of the loop of parseTrafficList; st = [rm, curr]
parseChunk(st, trafficStr) ==
    IF startswith(trafficStr, InMarker)
    THEN LET currTrafficIn == getTrafficLookupKey(strip(trafficStr))
             found == find(st.rm, currTrafficIn)
         IN  IF found # 0
             THEN LET rm1 == [st.rm EXCEPT ![found] = newResponse(@)]
                  IN  [rm |-> IF startswith(trafficStr, PYT)
                                 /\ ~contains(trafficStr, "(")
                              THEN registerIntermediateCalls(rm1, found)
                              ELSE rm1,
                       curr |-> found]
             ELSE [rm |-> Append(st.rm, ReplayedResponseHandler(currTrafficIn)),
                   curr |-> Len(st.rm) + 1]
    ELSE IF st.curr # 0
         THEN [st EXCEPT !.rm[st.curr] = addResponse(@, trafficStr)]
         ELSE st

RECURSIVE parseFrom(_, _, _)
parseFrom(st, list, i) ==
    IF i > Len(list) THEN st
    ELSE parseFrom(parseChunk(st, list[i]), list, i + 1)

parseTrafficList(list) == parseFrom([rm |-> <<>>, curr |-> 0], list, 1).rm

(***************************************************************************)
(* ReplayInfo: tokenizing a key (getWords).                                *)
(***************************************************************************)
\* s.split(sep) for a one-character sep: empty pieces are kept
RECURSIVE splitOn(_, _, _, _)
splitOn(s, sep, i, cur) ==
    IF i > Len(s) THEN <<cur>>
    ELSE IF s[i] = sep THEN <<cur>> \o splitOn(s, sep, i + 1, <<>>)
    ELSE splitOn(s, sep, i + 1, Append(cur, s[i]))

\* s.split(None): runs of whitespace separate, empty pieces are dropped
RECURSIVE splitWhitespace(_, _, _)
splitWhitespace(s, i, cur) ==
    IF i > Len(s) THEN (IF cur = <<>> THEN <<>> ELSE <<cur>>)
    ELSE IF s[i] \in Whitespace
         THEN (IF cur = <<>> THEN <<>> ELSE <<cur>>)
              \o splitWhitespace(s, i + 1, <<>>)
    ELSE splitWhitespace(s, i + 1, Append(cur, s[i]))

split(s, sep) ==
    IF sep = None THEN splitWhitespace(s, 1, <<>>) ELSE splitOn(s, sep, 1, <<>>)

RECURSIVE _getWords(_, _)
RECURSIVE wordsOfParts(_, _, _)
wordsOfParts(parts, i, separators) ==
    IF i > Len(parts) THEN <<>>
    ELSE _getWords(parts[i], separators) \o wordsOfParts(parts, i + 1, separators)

_getWords(desc, separators) ==
    IF Len(separators) = 0 THEN <<desc>>
    ELSE wordsOfParts(split(desc, Head(separators)), 1, Tail(separators))

\* variant: the whitespace split is made first
getWordsWhitespaceFirst(desc) == _getWords(desc, <<None, "/", "(", ")", "\\">>)

getWords(desc) == _getWords(desc, <<"/", "(", ")", "\\", None>>)

(***************************************************************************)
(* ReplayInfo: scoring (difflib.SequenceMatcher without junk).             *)
(***************************************************************************)
\* the length of the common run of a from i and b from j (0-based), within
\* a[..ahi) and b[..bhi)
RECURSIVE runLength(_, _, _, _, _, _)
runLength(a, b, i, j, ahi, bhi) ==
    IF i < ahi /\ j < bhi /\ a[i + 1] = b[j + 1]
    THEN 1 + runLength(a, b, i + 1, j + 1, ahi, bhi)
    ELSE 0

\* SequenceMatcher.find_longest_match: the longest block, earliest in a, then
\* earliest in b; (alo, blo, 0) when nothing matches
findLongestMatch(a, b, alo, ahi, blo, bhi) ==
    LET cands == {<<i, j>> \in (alo..(ahi - 1)) \X (blo..(bhi - 1)) :
                     a[i + 1] = b[j + 1]}
        size(c) == runLength(a, b, c[1], c[2], ahi, bhi)
        better(c, d) ==
            \/ size(c) > size(d)
            \/ size(c) = size(d) /\ c[1] < d[1]
            \/ size(c) = size(d) /\ c[1] = d[1] /\ c[2] <= d[2]
    IN  IF cands = {} THEN [a |-> alo, b |-> blo, size |-> 0]
        ELSE CHOOSE x \in {[a |-> c[1], b |-> c[2], size |-> size(c)] : c \in cands} :
                 \A d \in cands : better(<<x.a, x.b>>, d)

RECURSIVE blocksIn(_, _, _, _, _, _)
blocksIn(a, b, alo, ahi, blo, bhi) ==
    CHOOSE blocks \in
        {IF x.size = 0 THEN <<>>
         ELSE (IF alo < x.a /\ blo < x.b
               THEN blocksIn(a, b, alo, x.a, blo, x.b) ELSE <<>>)
              \o <<x>>
              \o (IF x.a + x.size < ahi /\ x.b + x.size < bhi
                  THEN blocksIn(a, b, x.a + x.size, ahi, x.b + x.size, bhi)
                  ELSE <<>>) :
            x \in {findLongestMatch(a, b, alo, ahi, blo, bhi)}} : TRUE

\* adjacent blocks are collapsed into one
RECURSIVE collapse(_, _, _)
collapse(blocks, i, cur) ==
    IF i > Len(blocks) THEN (IF cur.size = 0 THEN <<>> ELSE <<cur>>)
    ELSE IF cur.a + cur.size = blocks[i].a /\ cur.b + cur.size = blocks[i].b
         THEN collapse(blocks, i + 1, [cur EXCEPT !.size = @ + blocks[i].size])
    ELSE (IF cur.size = 0 THEN <<>> ELSE <<cur>>)
         \o collapse(blocks, i + 1, blocks[i])

\* matcher.get_matching_blocks(), the closing (len(a), len(b), 0) included
getMatchingBlocks(list1, list2) ==
    Append(collapse(blocksIn(list1, list2, 0, Len(list1), 0, Len(list2)), 1,
                    [a |-> 0, b |-> 0, size |-> 0]),
           [a |-> Len(list1), b |-> Len(list2), size |-> 0])

RECURSIVE sumSizes(_, _)
sumSizes(blocks, i) ==
    IF i > Len(blocks) THEN 0 ELSE blocks[i].size + sumSizes(blocks, i + 1)

commonElementCount(blocks) == sumSizes(blocks, 1)

lastBlockReachesEnd(blocks) ==
    LET n == Len(blocks)
    IN  /\ blocks[n - 1].a + blocks[n - 1].size = blocks[n].a
        /\ blocks[n - 1].b + blocks[n - 1].size = blocks[n].b

nonMatchingSequenceCount(blocks) ==
    IF Len(blocks) > 1 /\ lastBlockReachesEnd(blocks)
    THEN Len(blocks) - 2
    ELSE Len(blocks) - 1

\* variant: the unconsumed generations are compared before the gaps
isBetterMatchByRemaining(info1, info2, targetWords) ==
    LET blocks1 == getMatchingBlocks(info1.words, targetWords)
        blocks2 == getMatchingBlocks(info2.words, targetWords)
        common1 == commonElementCount(blocks1)
        common2 == commonElementCount(blocks2)
        nonMatchCount1 == nonMatchingSequenceCount(blocks1)
        nonMatchCount2 == nonMatchingSequenceCount(blocks2)
    IN  IF common1 > common2 THEN TRUE
        ELSE IF common1 < common2 THEN FALSE
        ELSE IF info1.unmatched > info2.unmatched THEN TRUE
        ELSE IF info1.unmatched < info2.unmatched THEN FALSE
        ELSE nonMatchCount1 < nonMatchCount2

\* variant: a candidate that ties with the best so far replaces it
isBetterMatchOrEqual(info1, info2, targetWords) ==
    LET blocks1 == getMatchingBlocks(info1.words, targetWords)
        blocks2 == getMatchingBlocks(info2.words, targetWords)
        common1 == commonElementCount(blocks1)
        common2 == commonElementCount(blocks2)
        nonMatchCount1 == nonMatchingSequenceCount(blocks1)
        nonMatchCount2 == nonMatchingSequenceCount(blocks2)
    IN  IF common1 > common2 THEN TRUE
        ELSE IF common1 < common2 THEN FALSE
        ELSE IF nonMatchCount1 < nonMatchCount2 THEN TRUE
        ELSE IF nonMatchCount1 > nonMatchCount2 THEN FALSE
        ELSE info1.unmatched >= info2.unmatched

\* info = [words, unmatched]
isBetterMatch(info1, info2, targetWords) ==
    \E blocks1 \in {getMatchingBlocks(info1.words, targetWords)},
       blocks2 \in {getMatchingBlocks(info2.words, targetWords)} :
        \E common1 \in {commonElementCount(blocks1)},
           common2 \in {commonElementCount(blocks2)},
           nonMatchCount1 \in {nonMatchingSequenceCount(blocks1)},
           nonMatchCount2 \in {nonMatchingSequenceCount(blocks2)} :
            IF common1 > common2 THEN TRUE
            ELSE IF common1 < common2 THEN FALSE
            ELSE IF nonMatchCount1 < nonMatchCount2 THEN TRUE
            ELSE IF nonMatchCount1 > nonMatchCount2 THEN FALSE
            ELSE info1.unmatched > info2.unmatched

\* variant: the marker is compared instead of the category tag
sameTypeByMarker(desc1, desc2) == slice(desc1, 0, 2) = slice(desc2, 0, 2)

sameType(desc1, desc2) == slice(desc1, 2, 5) = slice(desc2, 2, 5)

\* the unmatched count of the initial bestMatchInfo
InitialUnmatched == 100000

\* the loop of findBestMatch from entry i on; best = [match, info]
RECURSIVE bestFrom(_, _, _, _, _)
bestFrom(rm, desc, descWords, i, best) ==
    IF i > Len(rm) THEN best
    ELSE CHOOSE result \in
             {IF sameType(desc, rm[i].key)
                 /\ isBetterMatch(matchInfo, best.info, descWords)
              THEN bestFrom(rm, desc, descWords, i + 1,
                            [match |-> i, info |-> matchInfo])
              ELSE bestFrom(rm, desc, descWords, i + 1, best) :
                 matchInfo \in {[words |-> getWords(rm[i].key),
                                 unmatched |-> getUnmatchedResponseCount(rm[i])]}} :
             TRUE

\* variant: the initial best match has no unconsumed generation to its name
findBestMatchFromZero(rm, desc) ==
    bestFrom(rm, desc, getWords(desc), 1,
             [match |-> 0, info |-> [words |-> <<>>, unmatched |-> 0]]).match

\* the position of the best match, 0 for None
findBestMatch(rm, desc) ==
    bestFrom(rm, desc, getWords(desc), 1,
             [match |-> 0,
              info |-> [words |-> <<>>, unmatched |-> InitialUnmatched]]).match

(***************************************************************************)
(* ReplayedResponseHandler: choosing the generation to hand out.           *)
(***************************************************************************)
\* variant: the intermediate handlers are not looked at
allIntermediatesCalledUngated(h, rm) == TRUE

\* all(handler.timesChosen for handler in intermediateHandlers[timesChosen - 1])
allIntermediatesCalled(h, rm) ==
    LET handlers == h.intermediateHandlers[h.timesChosen]
    IN  \A k \in 1..Len(handlers) : rm[handlers[k]].timesChosen # 0

\* the result of getCurrentStrings: gen is the 0-based index of the generation
\* returned; raised names the exception of a list index out of range
current(h, gen, increment) ==
    IF gen < Len(h.responses)
    THEN [raised |-> "", gen |-> gen, increment |-> increment]
    ELSE [raised |-> "IndexError", gen |-> -1, increment |-> 0]

\* variant: an exhausted entry hands out its last generation
getCurrentStringsClamped(h, rm) ==
    IF Len(h.intermediateHandlers) > 0
    THEN IF h.timesChosen = 0 THEN current(h, 0, 1)
         ELSE IF h.timesChosen - 1 >= Len(h.intermediateHandlers)
              THEN [raised |-> "IndexError", gen |-> -1, increment |-> 0]
         ELSE IF allIntermediatesCalled(h, rm)
              THEN current(h, h.timesChosen, 1)
         ELSE current(h, h.timesChosen - 1, 0)
    ELSE current(h, Min(h.timesChosen, Len(h.responses) - 1), 1)

\* variant: the cursor is used as the index without looking at the count
getCurrentStringsUnchecked(h, rm) ==
    IF Len(h.intermediateHandlers) > 0
    THEN IF h.timesChosen = 0 THEN current(h, 0, 1)
         ELSE IF h.timesChosen - 1 >= Len(h.intermediateHandlers)
              THEN [raised |-> "IndexError", gen |-> -1, increment |-> 0]
         ELSE IF allIntermediatesCalled(h, rm)
              THEN current(h, h.timesChosen, 1)
         ELSE current(h, h.timesChosen - 1, 0)
    ELSE current(h, h.timesChosen, 1)

getCurrentStrings(h, rm) ==
    IF Len(h.intermediateHandlers) > 0
    THEN IF h.timesChosen = 0 THEN current(h, 0, 1)
         ELSE IF h.timesChosen - 1 >= Len(h.intermediateHandlers)
              THEN [raised |-> "IndexError", gen |-> -1, increment |-> 0]
         ELSE IF allIntermediatesCalled(h, rm)
              THEN current(h, h.timesChosen, 1)
         ELSE current(h, h.timesChosen - 1, 0)
    ELSE IF h.timesChosen < Len(h.responses)
         THEN current(h, h.timesChosen, 1)
    ELSE current(h, 0, 1)

\* getCurrentStrings of a handler without intermediate handlers, in the two
\* reads of timesChosen that it makes: the test against len(self.responses),
\* and the index into self.responses after a test that gave below
cursorBelowCount(h) == h.timesChosen < Len(h.responses)

\* variant: the first generation is handed out whatever the cursor
currStringsFirst(h, below) == current(h, 0, 1)

currStrings(h, below) ==
    IF below THEN current(h, h.timesChosen, 1) ELSE current(h, 0, 1)

\* variant: the payload keeps the type tag of the line
RECURSIVE responsesOfLineWithTag(_, _, _)
responsesOfLineWithTag(trafficStr, allClasses, k) ==
    IF k > Len(allClasses) THEN <<>>
    ELSE (IF allClasses[k] = slice(trafficStr, 2, 5)
          THEN << <<allClasses[k], sliceFrom(trafficStr, 2)>> >> ELSE <<>>)
         \o responsesOfLineWithTag(trafficStr, allClasses, k + 1)

\* the (class, payload) pairs of one line, one per class of its type
RECURSIVE responsesOfLine(_, _, _)
responsesOfLine(trafficStr, allClasses, k) ==
    IF k > Len(allClasses) THEN <<>>
    ELSE (IF allClasses[k] = slice(trafficStr, 2, 5)
          THEN << <<allClasses[k], sliceFrom(trafficStr, 6)>> >> ELSE <<>>)
         \o responsesOfLine(trafficStr, allClasses, k + 1)

RECURSIVE responsesOf(_, _, _)
responsesOf(trafficStrings, allClasses, i) ==
    IF i > Len(trafficStrings) THEN <<>>
    ELSE responsesOfLine(trafficStrings[i], allClasses, 1)
         \o responsesOf(trafficStrings, allClasses, i + 1)

\* variant: the cursor is advanced once per call and once per increment
makeResponsesSkipping(rm, idx, allClasses) ==
    LET c == getCurrentStrings(rm[idx], rm)
    IN  IF c.raised # ""
        THEN [raised |-> c.raised, gen |-> -1, increment |-> 0,
              responses |-> <<>>, rm |-> rm]
        ELSE [raised |-> "", gen |-> c.gen, increment |-> c.increment,
              responses |-> responsesOf(rm[idx].responses[c.gen + 1], allClasses, 1),
              rm |-> [rm EXCEPT ![idx].timesChosen = @ + c.increment + 1]]

\* makeResponses of the handler at position idx: the value returned and the
\* map with the handler's timesChosen advanced
makeResponses(rm, idx, allClasses) ==
    CHOOSE result \in
        {IF c.raised # ""
         THEN [raised |-> c.raised, gen |-> -1, increment |-> 0,
               responses |-> <<>>, rm |-> rm]
         ELSE [raised |-> "", gen |-> c.gen, increment |-> c.increment,
               responses |-> responsesOf(rm[idx].responses[c.gen + 1], allClasses, 1),
               rm |-> [rm EXCEPT ![idx].timesChosen = @ + c.increment]] :
            c \in {getCurrentStrings(rm[idx], rm)}} : TRUE

(***************************************************************************)
(* ReplayInfo: lookup.                                                     *)
(***************************************************************************)
\* variant: the closest key is looked for before the literal one
getResponseMapKeyFuzzyFirst(rm, description, exact, exactMatchingOn) ==
    LET desc == getTrafficLookupKey(description)
    IN  IF ~exact /\ ~exactMatchingOn
        THEN [key |-> findBestMatch(rm, desc), fuzzy |-> TRUE, raised |-> ""]
        ELSE IF find(rm, desc) # 0
        THEN [key |-> find(rm, desc), fuzzy |-> FALSE, raised |-> ""]
        ELSE IF ~exact
        THEN [key |-> 0, fuzzy |-> FALSE, raised |-> "CaptureMockReplayError"]
        ELSE [key |-> 0, fuzzy |-> FALSE, raised |-> ""]

\* variant: a miss under configured exact matching returns None
getResponseMapKeySilent(rm, description, exact, exactMatchingOn) ==
    LET desc == getTrafficLookupKey(description)
    IN  IF find(rm, desc) # 0
        THEN [key |-> find(rm, desc), fuzzy |-> FALSE, raised |-> ""]
        ELSE IF ~exact /\ ~exactMatchingOn
        THEN [key |-> findBestMatch(rm, desc), fuzzy |-> TRUE, raised |-> ""]
        ELSE [key |-> 0, fuzzy |-> FALSE, raised |-> ""]

\* variant: configured exact matching is not looked at
getResponseMapKeyFallback(rm, description, exact, exactMatchingOn) ==
    LET desc == getTrafficLookupKey(description)
    IN  IF find(rm, desc) # 0
        THEN [key |-> find(rm, desc), fuzzy |-> FALSE, raised |-> ""]
        ELSE IF ~exact
        THEN [key |-> findBestMatch(rm, desc), fuzzy |-> TRUE, raised |-> ""]
        ELSE [key |-> 0, fuzzy |-> FALSE, raised |-> ""]

\* variant: configured exact matching makes every miss raise
getResponseMapKeyStrict(rm, description, exact, exactMatchingOn) ==
    LET desc == getTrafficLookupKey(description)
    IN  IF find(rm, desc) # 0
        THEN [key |-> find(rm, desc), fuzzy |-> FALSE, raised |-> ""]
        ELSE IF exactMatchingOn
        THEN [key |-> 0, fuzzy |-> FALSE, raised |-> "CaptureMockReplayError"]
        ELSE IF ~exact
        THEN [key |-> findBestMatch(rm, desc), fuzzy |-> TRUE, raised |-> ""]
        ELSE [key |-> 0, fuzzy |-> FALSE, raised |-> ""]

\* the position of the key to use (0 for None), whether findBestMatch was
\* called, and the exception raised
getResponseMapKey(rm, description, exact, exactMatchingOn) ==
    LET desc == getTrafficLookupKey(description)
    IN  IF find(rm, desc) # 0
        THEN [key |-> find(rm, desc), fuzzy |-> FALSE, raised |-> ""]
        ELSE IF ~exact
        THEN IF exactMatchingOn
             THEN [key |-> 0, fuzzy |-> FALSE, raised |-> "CaptureMockReplayError"]
             ELSE [key |-> findBestMatch(rm, desc), fuzzy |-> TRUE, raised |-> ""]
        ELSE [key |-> 0, fuzzy |-> FALSE, raised |-> ""]

\* variant: the entry found by the closest key is read without being consumed
replayResponsesPeekingFuzzy(rm, description, hasInfo, allClasses, exact, exactMatchingOn) ==
    IF ~hasInfo
    THEN [raised |-> "", key |-> 0, fuzzy |-> FALSE, gen |-> -1, increment |-> 0,
          responses |-> <<>>, rm |-> rm]
    ELSE LET k == getResponseMapKey(rm, description, exact, exactMatchingOn)
         IN  IF k.raised # ""
             THEN [raised |-> k.raised, key |-> 0, fuzzy |-> k.fuzzy, gen |-> -1,
                   increment |-> 0, responses |-> <<>>, rm |-> rm]
             ELSE IF k.key # 0
             THEN LET m == makeResponses(rm, k.key, allClasses)
                  IN  [raised |-> m.raised, key |-> k.key, fuzzy |-> k.fuzzy,
                       gen |-> m.gen, increment |-> m.increment,
                       responses |-> m.responses,
                       rm |-> IF k.fuzzy THEN rm ELSE m.rm]
             ELSE [raised |-> "", key |-> 0, fuzzy |-> k.fuzzy, gen |-> -1,
                   increment |-> 0, responses |-> <<>>, rm |-> rm]

\* the outcome of readReplayResponses(traffic, allClasses, exact) on map rm
replayResponses(rm, description, hasInfo, allClasses, exact, exactMatchingOn) ==
    IF ~hasInfo
    THEN [raised |-> "", key |-> 0, fuzzy |-> FALSE, gen |-> -1, increment |-> 0,
          responses |-> <<>>, rm |-> rm]
    ELSE CHOOSE result \in
        {IF k.raised # ""
         THEN [raised |-> k.raised, key |-> 0, fuzzy |-> k.fuzzy, gen |-> -1,
               increment |-> 0, responses |-> <<>>, rm |-> rm]
         ELSE IF k.key # 0
         THEN CHOOSE made \in
                 {[raised |-> m.raised, key |-> k.key, fuzzy |-> k.fuzzy,
                   gen |-> m.gen, increment |-> m.increment,
                   responses |-> m.responses, rm |-> m.rm] :
                     m \in {makeResponses(rm, k.key, allClasses)}} : TRUE
         ELSE [raised |-> "", key |-> 0, fuzzy |-> k.fuzzy, gen |-> -1,
               increment |-> 0, responses |-> <<>>, rm |-> rm] :
            k \in {getResponseMapKey(rm, description, exact, exactMatchingOn)}} : TRUE

\* variant: the inspection advances the cursor of the entry it reads
RECURSIVE inspectConsumingFrom(_, _, _)
inspectConsumingFrom(rm, prefix, i) ==
    IF i > Len(rm)
    THEN [raised |-> "", key |-> 0, gen |-> -1, value |-> <<>>, rm |-> rm]
    ELSE IF ~startswith(sliceFrom(rm[i].key, 6), prefix)
    THEN inspectConsumingFrom(rm, prefix, i + 1)
    ELSE LET c == getCurrentStrings(rm[i], rm)
             rm1 == [rm EXCEPT ![i].timesChosen = @ + c.increment]
         IN  IF c.raised # ""
             THEN [raised |-> c.raised, key |-> i, gen |-> -1, value |-> <<>>,
                   rm |-> rm]
             ELSE IF Len(rm[i].responses[c.gen + 1]) > 0
             THEN [raised |-> "", key |-> i, gen |-> c.gen,
                   value |-> <<sliceFrom(rm[i].responses[c.gen + 1][1], 6)>>,
                   rm |-> rm1]
             ELSE inspectConsumingFrom(rm1, prefix, i + 1)

\* the loop of findResponseToTrafficStartingWith from entry i on: the entry
\* and generation read last, the value returned (<<>> for None) and the map
RECURSIVE inspectFrom(_, _, _)
inspectFrom(rm, prefix, i) ==
    IF i > Len(rm)
    THEN [raised |-> "", key |-> 0, gen |-> -1, value |-> <<>>, rm |-> rm]
    ELSE IF ~startswith(sliceFrom(rm[i].key, 6), prefix)
    THEN inspectFrom(rm, prefix, i + 1)
    ELSE LET c == getCurrentStrings(rm[i], rm)
         IN  IF c.raised # ""
             THEN [raised |-> c.raised, key |-> i, gen |-> -1, value |-> <<>>,
                   rm |-> rm]
             ELSE IF Len(rm[i].responses[c.gen + 1]) > 0
             THEN [raised |-> "", key |-> i, gen |-> c.gen,
                   value |-> <<sliceFrom(rm[i].responses[c.gen + 1][1], 6)>>,
                   rm |-> rm]
             ELSE inspectFrom(rm, prefix, i + 1)

(***************************************************************************)
(* The state machine.                                                      *)
(***************************************************************************)
\* the cursors of the map, by position
timesChosenOf(rm) == [i \in 1..Len(rm) |-> rm[i].timesChosen]

RECURSIVE SeqsUpTo(_, _)
SeqsUpTo(S, n) ==
    IF n = 0 THEN {<<>>}
    ELSE LET shorter == SeqsUpTo(S, n - 1)
         IN  shorter \cup {Append(t, x) : t \in shorter, x \in S}

Traces == SeqsUpTo(Chunks, MaxTrace)

NoCall ==
    [op |-> "none", description |-> <<>>, hasInfo |-> FALSE, exact |-> FALSE,
     allClasses |-> <<>>, raised |-> "", key |-> 0, fuzzy |-> FALSE,
     gen |-> -1, increment |-> 0, responses |-> <<>>, before |-> <<>>,
     srvBefore |-> 0]

\* one caller, which makes its calls one after the other
SingleCaller ==
    /\ threads = <<>>
    /\ lock = [used |-> FALSE, holder |-> 0]

\* no script is replayed
NoReplayScript ==
    /\ replayScript = None
    /\ idleHandlers = <<>>
    /\ idleQueue = <<>>
    /\ stdout = <<>>

\* ReplayInfo.__init__ with a replay file holding the chunks of trafficList
Init ==
    /\ trafficList \in Traces
    /\ exactMatching \in BOOLEAN
    /\ responseMap = parseTrafficList(trafficList)
    /\ last = NoCall
    /\ calls = 0
    /\ srvCalls = 0
    /\ SingleCaller
    /\ NoReplayScript

readReplayResponses(description, hasInfo, allClasses, exact) ==
    /\ calls < MaxCalls
    /\ \E r \in {replayResponses(responseMap, description, hasInfo, allClasses,
                                 exact, exactMatching)} :
           /\ responseMap' = r.rm
           /\ last' = [op |-> "readReplayResponses", description |-> description,
                       hasInfo |-> hasInfo, exact |-> exact,
                       allClasses |-> allClasses, raised |-> r.raised,
                       key |-> r.key, fuzzy |-> r.fuzzy, gen |-> r.gen,
                       increment |-> r.increment, responses |-> r.responses,
                       before |-> timesChosenOf(responseMap), srvBefore |-> srvCalls]
    /\ srvCalls' = IF hasInfo /\ startswith(description, SRV)
                   THEN srvCalls + 1 ELSE srvCalls
    /\ calls' = calls + 1
    /\ UNCHANGED <<trafficList, exactMatching,
                 threadVars, gtkVars>>

Next ==
    \E req \in Requests, allClasses \in ClassLists :
        readReplayResponses(req.description, req.hasInfo, allClasses, req.exact)

Spec == Init /\ [][Next]_vars

findResponseToTrafficStartingWith(prefix) ==
    /\ calls < MaxCalls
    /\ \E r \in {inspectFrom(responseMap, prefix, 1)} :
           /\ responseMap' = r.rm
           /\ last' = [op |-> "findResponseToTrafficStartingWith",
                       description |-> prefix, hasInfo |-> TRUE, exact |-> FALSE,
                       allClasses |-> <<>>, raised |-> r.raised, key |-> r.key,
                       fuzzy |-> FALSE, gen |-> r.gen, increment |-> 0,
                       responses |-> r.value,
                       before |-> timesChosenOf(responseMap), srvBefore |-> srvCalls]
    /\ calls' = calls + 1
    /\ UNCHANGED <<trafficList, exactMatching, srvCalls,
                 threadVars, gtkVars>>

\* the traces of nested calls, resolved in non-forced mode and inspected
InitNested ==
    /\ trafficList \in SeqsUpTo(NestedChunks, MaxNestedTrace)
    /\ exactMatching = FALSE
    /\ responseMap = parseTrafficList(trafficList)
    /\ last = NoCall
    /\ calls = 0
    /\ srvCalls = 0
    /\ SingleCaller
    /\ NoReplayScript

NextNested ==
    \/ \E description \in NestedDescriptions, allClasses \in ClassLists :
          readReplayResponses(description, TRUE, allClasses, FALSE)
    \/ \E prefix \in Prefixes : findResponseToTrafficStartingWith(prefix)

SpecNested == InitNested /\ [][NextNested]_vars

\* the traces of keys that share tokens, resolved in non-forced mode
InitFuzzy ==
    /\ trafficList \in SeqsUpTo(FuzzyChunks, MaxFuzzyTrace)
    /\ exactMatching = FALSE
    /\ responseMap = parseTrafficList(trafficList)
    /\ last = NoCall
    /\ calls = 0
    /\ srvCalls = 0
    /\ SingleCaller
    /\ NoReplayScript

NextFuzzy ==
    \E description \in FuzzyDescriptions, allClasses \in ClassLists :
        readReplayResponses(description, TRUE, allClasses, FALSE)

SpecFuzzy == InitFuzzy /\ [][NextFuzzy]_vars

(***************************************************************************)
(* Vocabulary of the properties: the last call, seen from the state after  *)
(* it.                                                                     *)
(***************************************************************************)
Called == last.op = "readReplayResponses"

\* the canonicalized key of the last call's traffic
LastDesc == getTrafficLookupKey(last.description)

\* the positions of the entries stored under the last call's key
LastPresent == {i \in 1..Len(responseMap) : responseMap[i].key = LastDesc}

\* the positions of the entries of the query's category tag (offsets 2..4)
LastCategoryMates ==
    {i \in 1..Len(responseMap) :
        slice(responseMap[i].key, 2, 5) = slice(LastDesc, 2, 5)}

Range(seq) == {seq[i] : i \in 1..Len(seq)}

\* the category mates that have at least one token in common with the query
LastTokenMates ==
    {i \in LastCategoryMates :
        Range(getWords(responseMap[i].key)) \cap Range(getWords(LastDesc)) # {}}

CursorsUnchanged == timesChosenOf(responseMap) = last.before

\* keys, generations and intermediate sets, without the cursors
Structure(rm) == [i \in 1..Len(rm) |-> [rm[i] EXCEPT !.timesChosen = 0]]

\* the chunks of the trace that are server traffic
SrvChunks == {i \in 1..Len(trafficList) : startswith(trafficList[i], SRV)}

\* the last call selected an entry that has no intermediate sets
LastPlain ==
    /\ Called
    /\ last.key # 0
    /\ Len(responseMap[last.key].intermediateHandlers) = 0

\* the traces of all kinds of chunks, longer, replayed by forced-exact calls
ParseDescriptions == {QSrvC, QPytFoo}

InitParse ==
    /\ trafficList \in SeqsUpTo(Chunks, MaxParseTrace)
    /\ exactMatching = FALSE
    /\ responseMap = parseTrafficList(trafficList)
    /\ last = NoCall
    /\ calls = 0
    /\ srvCalls = 0
    /\ SingleCaller
    /\ NoReplayScript

NextParse ==
    \E description \in ParseDescriptions, allClasses \in ClassLists :
        readReplayResponses(description, TRUE, allClasses, TRUE)

SpecParse == InitParse /\ [][NextParse]_vars

\* the traces whose generations hold lines of several types, resolved with
\* several class lists
InitResponses ==
    /\ trafficList \in SeqsUpTo(ResponseChunks, MaxResponseTrace)
    /\ exactMatching = FALSE
    /\ responseMap = parseTrafficList(trafficList)
    /\ last = NoCall
    /\ calls = 0
    /\ srvCalls = 0
    /\ SingleCaller
    /\ NoReplayScript

NextResponses ==
    \E allClasses \in ResponseClassLists :
        readReplayResponses(QPytFoo, TRUE, allClasses, FALSE)

SpecResponses == InitResponses /\ [][NextResponses]_vars

\* the keys given to getWords, and the call of getWords on the key drawn
InitWords ==
    /\ trafficList = <<>>
    /\ exactMatching = FALSE
    /\ responseMap = parseTrafficList(trafficList)
    /\ last \in {[op |-> "none", description |-> desc, words |-> <<>>] :
                    desc \in SeqsUpTo(KeyChars, MaxKeyLen)}
    /\ calls = 0
    /\ srvCalls = 0
    /\ SingleCaller
    /\ NoReplayScript

getWordsCall ==
    /\ last.op = "none"
    /\ last' = [op |-> "getWords", description |-> last.description,
                words |-> getWords(last.description)]
    /\ UNCHANGED <<trafficList, exactMatching, responseMap, calls, srvCalls,
                 threadVars, gtkVars>>

NextWords == getWordsCall

SpecWords == InitWords /\ [][NextWords]_vars

(***************************************************************************)
(* Several callers of one ReplayInfo.  A resolve of a key without           *)
(* intermediate handlers reads self.timesChosen in the test and in the index *)
(* of getCurrentStrings and in the load of 'self.timesChosen += increment',  *)
(* and writes it in the store; another caller may run between any two of     *)
(* them unless the callers share a lock held around the whole call.          *)
(***************************************************************************)
Threads == 1..NumThreads

Resting(results) ==
    [pc |-> "idle", idx |-> 0, below |-> FALSE, gen |-> -1, increment |-> 0,
     loaded |-> 0, results |-> results]

InitThreads ==
    /\ trafficList \in SeqsUpTo(ThreadChunks, MaxThreadTrace)
    /\ exactMatching = FALSE
    /\ responseMap = parseTrafficList(trafficList)
    /\ last = NoCall
    /\ calls = 0
    /\ srvCalls = 0
    /\ threads = [t \in Threads |-> Resting(<<>>)]
    /\ lock \in {[used |-> u, holder |-> 0] : u \in BOOLEAN}
    /\ NoReplayScript

\* readReplayResponses up to the call of makeResponses: the key is looked up,
\* which changes nothing; a call that finds no key returns [].  Callers that
\* share a lock take it before the call and give it back when the call ends.
enterReadReplayResponses(t) ==
    /\ threads[t].pc = "idle"
    /\ calls < MaxCalls
    /\ lock.used => lock.holder = 0
    /\ calls' = calls + 1
    /\ \E k \in {getResponseMapKey(responseMap, QCmdBarX, FALSE, exactMatching)} :
           IF k.key = 0
           THEN UNCHANGED <<threads, lock>>
           ELSE /\ threads' = [threads EXCEPT ![t].pc = "test", ![t].idx = k.key]
                /\ lock' = IF lock.used THEN [lock EXCEPT !.holder = t] ELSE lock
    /\ UNCHANGED <<trafficList, exactMatching, responseMap, last, srvCalls,
                   gtkVars>>

\* elif self.timesChosen < len(self.responses):
testTimesChosen(t) ==
    /\ threads[t].pc = "test"
    /\ threads' = [threads EXCEPT
                      ![t].pc = "index",
                      ![t].below = cursorBelowCount(responseMap[threads[t].idx])]
    /\ UNCHANGED <<trafficList, exactMatching, responseMap, last, calls,
                   srvCalls, lock, gtkVars>>

\* currStrings = self.responses[self.timesChosen], or self.responses[0]; an
\* index out of range ends the call with IndexError (recorded as -1)
indexResponses(t) ==
    /\ threads[t].pc = "index"
    /\ \E c \in {currStrings(responseMap[threads[t].idx], threads[t].below)} :
           IF c.raised # ""
           THEN /\ threads' = [threads EXCEPT
                                  ![t] = Resting(Append(threads[t].results, -1))]
                /\ lock' = [lock EXCEPT !.holder = 0]
           ELSE /\ threads' = [threads EXCEPT ![t].pc = "load", ![t].gen = c.gen,
                                              ![t].increment = c.increment]
                /\ UNCHANGED lock
    /\ UNCHANGED <<trafficList, exactMatching, responseMap, last, calls,
                   srvCalls, gtkVars>>

\* self.timesChosen += increment: the load
loadTimesChosen(t) ==
    /\ threads[t].pc = "load"
    /\ threads' = [threads EXCEPT
                      ![t].pc = "store",
                      ![t].loaded = responseMap[threads[t].idx].timesChosen]
    /\ UNCHANGED <<trafficList, exactMatching, responseMap, last, calls,
                   srvCalls, lock, gtkVars>>

\* self.timesChosen += increment: the store, and the return of the responses
\* of the generation selected
storeTimesChosen(t) ==
    /\ threads[t].pc = "store"
    /\ responseMap' = [responseMap EXCEPT
                          ![threads[t].idx].timesChosen
                              = threads[t].loaded + threads[t].increment]
    /\ threads' = [threads EXCEPT
                      ![t] = Resting(Append(threads[t].results, threads[t].gen))]
    /\ lock' = [lock EXCEPT !.holder = 0]
    /\ UNCHANGED <<trafficList, exactMatching, last, calls, srvCalls, gtkVars>>

NextThreads ==
    \E t \in Threads :
        \/ enterReadReplayResponses(t)
        \/ testTimesChosen(t)
        \/ indexResponses(t)
        \/ loadTimesChosen(t)
        \/ storeTimesChosen(t)

SpecThreads == InitThreads /\ [][NextThreads]_vars

(***************************************************************************)
(* gtkscript: the replay of a script.  gtk calls the idle callbacks it      *)
(* holds one at a time and drops a callback that returns a false value.     *)
(***************************************************************************)
WaitFor == <<"w", "a", "i", "t", " ", "f", "o", "r", " ">>
Click == <<"c", "l", "i", "c", "k">>

\* the names given to addIdle: the first is the start of the second
IdleNames == {<<"f", "i", "l", "e">>,
              <<"f", "i", "l", "e", " ", "l", "i", "s", "t">>}

\* IdleHandler.__init__: Event.__init__(self, "wait for " + name, None)
idleEventName(name) == WaitFor \o name

\* the lines of the script file
ScriptCommands == {Click} \cup {idleEventName(name) : name \in IdleNames}

\* the values that a callback given to addIdle returns
RetValues == {"gtk.TRUE", "gtk.FALSE", None}

\* self.waitingForHandler = None
NoHandler == <<>>

\* ReplayScript.__init__ on a script file, then enableReading, and the
\* connect of the application's button to the command "click"
InitScript ==
    /\ trafficList = <<>>
    /\ exactMatching = FALSE
    /\ responseMap = <<>>
    /\ last = NoCall
    /\ calls = 0
    /\ srvCalls = 0
    /\ SingleCaller
    /\ replayScript \in {[events |-> {Click}, commands |-> commands, pointer |-> 0,
                           waitingForHandler |-> NoHandler] :
                              commands \in SeqsUpTo(ScriptCommands, MaxScript)}
    /\ idleHandlers = <<>>
    /\ idleQueue = [runCommands |-> 1, runCallback |-> {}]
    /\ stdout = <<>>

\* EventHandler.addIdle(handlerName, method) with a replay script: the handler
\* is created, which gives its runCallback to gtk, is added to the events of
\* the script and is observed by the script
addIdle(handlerName) ==
    /\ idleEventName(handlerName) \notin DOMAIN idleHandlers
    /\ idleHandlers' =
           [name \in DOMAIN idleHandlers \cup {idleEventName(handlerName)} |->
               IF name = idleEventName(handlerName)
               THEN [exited |-> 0] ELSE idleHandlers[name]]
    /\ idleQueue' = [idleQueue EXCEPT
                        !.runCallback = @ \cup {idleEventName(handlerName)}]
    /\ replayScript' = [replayScript EXCEPT
                           !.events = @ \cup {idleEventName(handlerName)}]
    /\ UNCHANGED <<trafficList, exactMatching, responseMap, last, calls,
                   srvCalls, threadVars, stdout>>

\* IdleHandler.runCallback, for a callback that returns retValue: on gtk.FALSE
\* the handler has exited and ReplayScript.idleHandlerExited calls
\* enableReading when the script waits for this handler
runCallback(name, retValue) ==
    /\ name \in idleQueue.runCallback
    /\ idleHandlers' = IF retValue = "gtk.FALSE"
                       THEN [idleHandlers EXCEPT ![name].exited = 1]
                       ELSE idleHandlers
    /\ \E resumed \in {retValue = "gtk.FALSE"
                           /\ replayScript.waitingForHandler = name} :
           /\ replayScript' = IF resumed
                              THEN [replayScript EXCEPT
                                       !.waitingForHandler = NoHandler]
                              ELSE replayScript
           /\ idleQueue' =
                  [runCommands |-> idleQueue.runCommands
                                      + (IF resumed THEN 1 ELSE 0),
                   runCallback |-> IF retValue = "gtk.TRUE"
                                   THEN idleQueue.runCallback
                                   ELSE idleQueue.runCallback \ {name}]
    /\ UNCHANGED <<trafficList, exactMatching, responseMap, last, calls,
                   srvCalls, threadVars, stdout>>

\* ReplayScript.findEvent: the names of self.events.keys() that the command
\* starts with; the first of them in the order of the dictionary is returned
findEvent(command) ==
    {eventName \in replayScript.events : startswith(command, eventName)}

\* Event.generate of the event of a name: an idle handler gives self.exited,
\* a signal event emits its signal and gives 1
generate(eventName) ==
    IF eventName \in DOMAIN idleHandlers
    THEN idleHandlers[eventName].exited ELSE 1

\* the idle handlers that have not exited
pendingHandlers ==
    {name \in DOMAIN idleHandlers : idleHandlers[name].exited = 0}

\* ReplayScript.runCommands, called by gtk: at the end of the script, and on
\* a command that no event name starts (GtkScriptError), it returns gtk.FALSE;
\* otherwise generateEvent prints the event and generates it, and returns
\* gtk.FALSE after setting waitingForHandler when the event gave 0
runCommands ==
    /\ idleQueue.runCommands > 0
    /\ IF replayScript.pointer >= Len(replayScript.commands)
       THEN /\ idleQueue' = [idleQueue EXCEPT !.runCommands = @ - 1]
            /\ UNCHANGED <<replayScript, stdout>>
       ELSE \E nextCommand \in {replayScript.commands[replayScript.pointer + 1]} :
                IF findEvent(nextCommand) = {}
                THEN /\ replayScript' = [replayScript EXCEPT !.pointer = @ + 1]
                     /\ idleQueue' = [idleQueue EXCEPT !.runCommands = @ - 1]
                     /\ UNCHANGED stdout
                ELSE \E eventName \in findEvent(nextCommand) :
                         /\ stdout' = Append(stdout,
                                [index |-> replayScript.pointer + 1,
                                 event |-> eventName,
                                 pending |-> pendingHandlers])
                         /\ IF generate(eventName) # 0
                            THEN /\ replayScript' =
                                        [replayScript EXCEPT !.pointer = @ + 1]
                                 /\ UNCHANGED idleQueue
                            ELSE /\ replayScript' =
                                        [replayScript EXCEPT
                                            !.pointer = @ + 1,
                                            !.waitingForHandler = eventName]
                                 /\ idleQueue' =
                                        [idleQueue EXCEPT !.runCommands = @ - 1]
    /\ UNCHANGED <<trafficList, exactMatching, responseMap, last, calls,
                   srvCalls, threadVars, idleHandlers>>

NextScript ==
    \/ \E handlerName \in IdleNames : addIdle(handlerName)
    \/ \E name \in DOMAIN idleHandlers, retValue \in RetValues :
          runCallback(name, retValue)
    \/ runCommands

SpecScript == InitScript /\ [][NextScript]_vars

(***************************************************************************)
(* Properties.                                                             *)
(***************************************************************************)

\* C1: when the traffic has information and its canonicalized key is in the
\* store, the call resolves to the entry of exactly that key, findBestMatch is
\* not called and the cursor of every other entry is left as it was, whether
\* or not exact matching is configured or requested.
ExactMatchPrecedence ==
    (Called /\ last.hasInfo /\ LastPresent # {}) =>
        /\ last.key \in LastPresent
        /\ ~last.fuzzy
        /\ last.raised # "CaptureMockReplayError"
        /\ \A j \in 1..Len(responseMap) :
              j # last.key => responseMap[j].timesChosen = last.before[j]

\* an exact hit in non-forced mode on a store that holds a second entry
ExactMatchPrecedenceWitness ==
    /\ Called /\ last.hasInfo /\ LastPresent # {}
    /\ ~exactMatching /\ ~last.exact
    /\ Len(responseMap) >= 2
    /\ last.gen >= 0
    /\ responseMap[last.key].timesChosen = last.before[last.key] + 1

\* C2: all chunks that start with <-SRV are stored under the one key <-SRV, as
\* one generation each, and the first n calls with a description that starts
\* with <-SRV return the generations 0..n-1 in recorded order, whatever the
\* rest of the description is.
ServerTrafficInOrder ==
    /\ \A i \in 1..Len(responseMap) :
          startswith(responseMap[i].key, SRV) =>
              /\ responseMap[i].key = SRV
              /\ Len(responseMap[i].responses) = Cardinality(SrvChunks)
    /\ SrvChunks # {} => \E i \in 1..Len(responseMap) : responseMap[i].key = SRV
    /\ (/\ Called /\ last.hasInfo /\ startswith(last.description, SRV)
        /\ last.srvBefore < Cardinality(SrvChunks)) =>
           /\ last.raised = ""
           /\ last.key # 0
           /\ responseMap[last.key].key = SRV
           /\ last.gen = last.srvBefore
           /\ last.responses =
                responsesOf(responseMap[last.key].responses[last.srvBefore + 1],
                            last.allClasses, 1)

\* three server chunks with two suffixes, and the third generation handed out
ServerTrafficInOrderWitness ==
    /\ Cardinality(SrvChunks) = 3
    /\ \E i, j \in SrvChunks : trafficList[i] # trafficList[j]
    /\ Called /\ last.hasInfo /\ last.description = QSrvC
    /\ last.srvBefore = 2 /\ last.gen = 2

\* C3 as stated: an entry without intermediate sets hands out generation
\* min(c, n-1) at cursor c, the last generation once exhausted, and advances.
ClampToLastGeneration ==
    LastPlain =>
        LET c == last.before[last.key]
            n == Len(responseMap[last.key].responses)
        IN  /\ last.raised = ""
            /\ last.gen = Min(c, n - 1)
            /\ responseMap[last.key].timesChosen = c + 1

\* C3, amended: an entry without intermediate sets hands out generation c at
\* cursor c < n and generation 0 at every cursor c >= n, and always advances
\* the cursor by 1.
NextGenerationOrFirst ==
    LastPlain =>
        LET c == last.before[last.key]
            n == Len(responseMap[last.key].responses)
        IN  /\ last.raised = ""
            /\ last.gen = (IF c < n THEN c ELSE 0)
            /\ last.increment = 1
            /\ responseMap[last.key].timesChosen = c + 1

\* an entry of two generations resolved at cursor 1 and again at cursor 2
NextGenerationOrFirstWitness ==
    /\ LastPlain
    /\ Len(responseMap[last.key].responses) = 2
    /\ last.before[last.key] = 2
    /\ last.gen = 0
    /\ responseMap[last.key].timesChosen = 3

\* C4: the cursor of an entry without intermediate sets may exceed its number
\* of generations, and every resolve made at a cursor >= that number returns
\* generation 0.
ExhaustedReturnsFirst ==
    (LastPlain
     /\ last.before[last.key] >= Len(responseMap[last.key].responses)) =>
        /\ last.raised = ""
        /\ last.gen = 0
        /\ last.responses =
             responsesOf(responseMap[last.key].responses[1], last.allClasses, 1)

\* the cursor is beyond the generation count of an entry with a response in
\* its first generation only
ExhaustedReturnsFirstWitness ==
    /\ LastPlain
    /\ Len(responseMap[last.key].responses) = 2
    /\ responseMap[last.key].timesChosen > 2
    /\ responseMap[last.key].responses[1] # <<>>
    /\ responseMap[last.key].responses[2] = <<>>
    /\ last.responses # <<>>

\* C5 as stated: once the cursor of an entry has reached its number of
\* generations, a resolve of its exact key raises nothing and returns one of
\* the recorded generations, also for entries with intermediate sets.
ExhaustedNeverFails ==
    (/\ Called /\ last.hasInfo /\ last.key \in LastPresent
     /\ last.before[last.key] >= Len(responseMap[last.key].responses)) =>
        /\ last.raised = ""
        /\ last.gen \in 0..(Len(responseMap[last.key].responses) - 1)

\* C6: a call never decreases a cursor, changes no cursor by more than 1, and
\* changes only the cursor of the entry whose generation it returned.
CursorMonotonic ==
    Called =>
        /\ Len(last.before) = Len(responseMap)
        /\ \A i \in 1..Len(responseMap) :
              LET d == responseMap[i].timesChosen - last.before[i]
              IN  /\ d \in {0, 1}
                  /\ d = 1 => (i = last.key /\ last.gen >= 0 /\ last.raised = "")
        /\ (last.key = 0 \/ last.raised # "") => CursorsUnchanged

\* a fuzzy hit advanced the cursor of the entry it chose, next to another entry
CursorMonotonicWitness ==
    /\ Called /\ last.fuzzy /\ last.key # 0
    /\ Len(responseMap) >= 2
    /\ responseMap[last.key].timesChosen = last.before[last.key] + 1
    /\ last.before[last.key] >= 1

\* C7 as stated: with exact matching configured and the key absent, every call
\* for the traffic raises CaptureMockReplayError.
ForcedMissAlwaysRaises ==
    (Called /\ last.hasInfo /\ exactMatching /\ LastPresent = {}) =>
        last.raised = "CaptureMockReplayError"

\* C7, amended: with exact matching configured, the key absent and the call
\* made without the per-call exact flag, the call raises
\* CaptureMockReplayError, returns nothing and does not call findBestMatch.
ForcedMissRaises ==
    (Called /\ last.hasInfo /\ ~last.exact /\ exactMatching /\ LastPresent = {}) =>
        /\ last.raised = "CaptureMockReplayError"
        /\ ~last.fuzzy
        /\ last.key = 0
        /\ last.gen = -1

\* the error is raised although a category mate shares a token with the query
ForcedMissRaisesWitness ==
    /\ Called /\ last.hasInfo /\ ~last.exact /\ exactMatching
    /\ LastPresent = {}
    /\ LastTokenMates # {}
    /\ last.raised = "CaptureMockReplayError"

\* C8: the call that fails with CaptureMockReplayError changes no cursor, no
\* generation and no intermediate set, so the calls after it find the store
\* of before the failing call.
ForcedMissLeavesStore ==
    (Called /\ (last.raised = "CaptureMockReplayError"
                \/ (last.hasInfo /\ ~last.exact /\ exactMatching
                    /\ LastPresent = {}))) =>
        /\ CursorsUnchanged
        /\ Structure(responseMap) = Structure(parseTrafficList(trafficList))

\* the error is raised on a store of which a cursor has already advanced
ForcedMissLeavesStoreWitness ==
    /\ Called /\ last.raised = "CaptureMockReplayError"
    /\ LastTokenMates # {}
    /\ \E i \in 1..Len(responseMap) : responseMap[i].timesChosen > 0

\* C9: in non-forced mode a call with an absent key, on a store that is empty
\* or holds no key of the query's category tag, returns the empty list, raises
\* nothing and changes no cursor.
NonForcedMissIsEmpty ==
    (/\ Called /\ last.hasInfo /\ ~exactMatching
     /\ LastPresent = {} /\ LastCategoryMates = {}) =>
        /\ last.raised = ""
        /\ last.key = 0
        /\ last.responses = <<>>
        /\ CursorsUnchanged

\* findBestMatch was called on a store whose only keys are of another category
\* and share a token with the query
NonForcedMissIsEmptyWitness ==
    /\ Called /\ last.hasInfo /\ ~exactMatching /\ ~last.exact
    /\ LastPresent = {} /\ LastCategoryMates = {}
    /\ last.fuzzy
    /\ \E i \in 1..Len(responseMap) :
          Range(getWords(responseMap[i].key)) \cap Range(getWords(LastDesc)) # {}
    /\ last.responses = <<>>

\* C10 as stated: in non-forced mode with an absent key, findBestMatch returns
\* one of the keys of the query's category tag whenever there is one.
CategoryMateAlwaysQualifies ==
    (/\ Called /\ last.hasInfo /\ ~last.exact /\ ~exactMatching
     /\ LastPresent = {} /\ LastCategoryMates # {}) =>
        last.key \in LastCategoryMates

\* C10, amended: in non-forced mode with an absent key, findBestMatch returns a
\* key exactly when a stored key of the query's category tag has at least one
\* token in common with the query, and the key returned is of that tag.
TokenMateQualifies ==
    (/\ Called /\ last.hasInfo /\ ~last.exact /\ ~exactMatching
     /\ LastPresent = {}) =>
        /\ last.fuzzy
        /\ (last.key # 0) = (LastTokenMates # {})
        /\ last.key # 0 => last.key \in LastCategoryMates

\* a category mate without a common token is in the store and nothing is chosen
TokenMateQualifiesWitness ==
    /\ Called /\ last.hasInfo /\ ~last.exact /\ ~exactMatching
    /\ LastPresent = {}
    /\ LastCategoryMates # {} /\ LastTokenMates = {}
    /\ last.key = 0 /\ last.responses = <<>>

(***************************************************************************)
(* Vocabulary of the ranking: the scores of the entries against the query  *)
(* of the last call, as they were when the call was made.                  *)
(***************************************************************************)
LastBlocks(i) ==
    getMatchingBlocks(getWords(responseMap[i].key), getWords(LastDesc))

\* the number of tokens covered by matching blocks
Common(i) == commonElementCount(LastBlocks(i))

\* the blocks returned minus one, minus one more when the last block with
\* tokens ends at the end of both token sequences
Gaps(i) ==
    LET b == LastBlocks(i)
        n == Len(b)
    IN  (n - 1)
        - (IF /\ n >= 2
              /\ b[n - 1].a + b[n - 1].size = Len(getWords(responseMap[i].key))
              /\ b[n - 1].b + b[n - 1].size = Len(getWords(LastDesc))
           THEN 1 ELSE 0)

\* the generations not yet consumed when the call was made
Remaining(i) == Len(responseMap[i].responses) - last.before[i]

FuzzyHit == Called /\ last.fuzzy /\ last.key # 0

\* C11: the key chosen by fuzzy matching has the category tag of the query
\* (offsets 2..4), whatever the tokens that keys of other categories share
\* with the query.
FuzzyKeepsCategory ==
    FuzzyHit =>
        slice(responseMap[last.key].key, 2, 5) = slice(LastDesc, 2, 5)

\* a key of another category covers as many tokens with fewer gaps than the
\* key chosen
FuzzyKeepsCategoryWitness ==
    /\ FuzzyHit
    /\ \E j \in 1..Len(responseMap) :
          /\ j \notin LastCategoryMates
          /\ Common(j) >= Common(last.key)
          /\ Gaps(j) < Gaps(last.key)

\* C12: the key chosen by fuzzy matching is, among the keys of the query's
\* category, first by the tokens covered by matching blocks (most), then by
\* the gaps (fewest), then by the unconsumed generations (most).
FuzzyRankingLexicographic ==
    FuzzyHit =>
        \A j \in LastCategoryMates :
            \/ Common(last.key) > Common(j)
            \/ /\ Common(last.key) = Common(j)
               /\ \/ Gaps(last.key) < Gaps(j)
                  \/ /\ Gaps(last.key) = Gaps(j)
                     /\ Remaining(last.key) >= Remaining(j)

\* the key chosen wins on gaps against a key with more unconsumed generations,
\* and on covered tokens against another with more unconsumed generations
FuzzyRankingLexicographicWitness ==
    /\ FuzzyHit
    /\ \/ \E j \in LastCategoryMates :
             /\ Common(j) = Common(last.key)
             /\ Gaps(j) > Gaps(last.key)
             /\ Remaining(j) > Remaining(last.key)
       \/ \E j \in LastCategoryMates :
             /\ Common(j) < Common(last.key)
             /\ Gaps(j) < Gaps(last.key)

\* the trace of the example: the two build keys, one generation each, none
\* consumed, and the query for /opt/x (debug)
BuildExample ==
    /\ trafficList \in {<<BuildXRelease, BuildYDebug>>,
                        <<BuildYDebug, BuildXRelease>>}
    /\ Called /\ last.description = QBuildXDebug
    /\ last.before = <<0, 0>>

\* C13 as stated: in the example the /opt/x key is chosen, in whichever order
\* the two keys are recorded.
BuildExamplePicksOptX ==
    BuildExample =>
        /\ last.key # 0
        /\ responseMap[last.key].key = strip(BuildXRelease)

\* C13, amended: in the example the two keys tie on covered tokens, gaps and
\* unconsumed generations, and the key recorded first is chosen.
BuildExamplePicksFirst ==
    BuildExample =>
        /\ Common(1) = 3 /\ Common(2) = 3
        /\ Gaps(1) = Gaps(2)
        /\ Remaining(1) = Remaining(2)
        /\ last.fuzzy
        /\ last.key = 1
        /\ last.gen = 0

\* the /opt/y key is recorded first and is chosen
BuildExamplePicksFirstWitness ==
    /\ BuildExample
    /\ trafficList[1] = BuildYDebug
    /\ last.key # 0
    /\ responseMap[last.key].key = strip(BuildYDebug)

\* the map as it was when the last call was made
BeforeMap ==
    [i \in 1..Len(responseMap) |->
        [responseMap[i] EXCEPT !.timesChosen = last.before[i]]]

\* the outcome of a forced-exact call with the key of the entry chosen, made
\* in the state in which the last call was made
ExactOnChosen ==
    replayResponses(BeforeMap, responseMap[last.key].key, TRUE,
                    last.allClasses, TRUE, FALSE)

\* C14: a fuzzy hit returns the generation and applies the cursor increment
\* that an exact hit on the chosen entry's own key would in the same state,
\* and leaves the cursors of all other entries and all generations unchanged.
FuzzyConsumesAsExact ==
    FuzzyHit =>
        /\ ExactOnChosen.key = last.key
        /\ ~ExactOnChosen.fuzzy
        /\ ExactOnChosen.raised = last.raised
        /\ ExactOnChosen.gen = last.gen
        /\ ExactOnChosen.increment = last.increment
        /\ ExactOnChosen.responses = last.responses
        /\ ExactOnChosen.rm = responseMap
        /\ \A j \in 1..Len(responseMap) :
              j # last.key => responseMap[j].timesChosen = last.before[j]
        /\ responseMap[last.key].timesChosen
              = last.before[last.key] + last.increment
        /\ Structure(responseMap) = Structure(parseTrafficList(trafficList))

\* a fuzzy hit on an entry with intermediate sets that the gate holds back:
\* the first generation is returned again and the cursor stays, another entry
\* of the category having been scored
FuzzyConsumesAsExactWitness ==
    /\ FuzzyHit
    /\ last.raised = ""
    /\ last.before[last.key] = 1
    /\ last.increment = 0
    /\ last.gen = 0
    /\ last.responses # <<>>
    /\ \E j \in LastCategoryMates : j # last.key

(***************************************************************************)
(* Vocabulary of the trace: the inbound chunks and the keys they carry.    *)
(***************************************************************************)
\* by position, the canonicalized key carried by an inbound chunk, as a
\* one-element sequence, and <<>> for a chunk that is not inbound
TraceKeys ==
    [p \in 1..Len(trafficList) |->
        IF startswith(trafficList[p], InMarker)
        THEN <<getTrafficLookupKey(strip(trafficList[p]))>>
        ELSE <<>>]

\* the positions of the chunks that start with the inbound marker
Inbound(keys) == {p \in DOMAIN keys : keys[p] # <<>>}

\* the positions of the inbound chunks that carry the key
Occurrences(keys, key) == {p \in DOMAIN keys : keys[p] = <<key>>}

\* the position of the n-th chunk that carries the key
NthOccurrence(keys, key, n) ==
    LET occ == Occurrences(keys, key)
    IN  CHOOSE p \in occ : Cardinality({q \in occ : q < p}) = n - 1

\* the keys of the inbound chunks, in trace order
RECURSIVE InboundKeysFrom(_, _)
InboundKeysFrom(keys, p) ==
    IF p > Len(keys) THEN <<>> ELSE keys[p] \o InboundKeysFrom(keys, p + 1)

InboundKeys == InboundKeysFrom(TraceKeys, 1)

\* the last call selected an entry that has intermediate sets
LastGated ==
    /\ Called
    /\ last.key # 0
    /\ Len(responseMap[last.key].intermediateHandlers) > 0

\* every entry of the intermediate set of index c - 1 had been consumed
GateOpen(h, c) ==
    \A k \in 1..Len(h.intermediateHandlers[c]) :
        last.before[h.intermediateHandlers[c][k]] > 0

\* C15 as stated: a resolve of an entry with intermediate sets made at cursor
\* 0 returns generation 0 and advances; made at cursor c >= 1 it returns
\* generation c and advances when every entry of the set of index c - 1 has
\* been consumed, and otherwise returns generation c - 1 and leaves the cursor.
IntermediateGate ==
    LastGated =>
        LET h == responseMap[last.key]
            c == last.before[last.key]
        IN  /\ last.raised = ""
            /\ IF c = 0
               THEN last.gen = 0 /\ h.timesChosen = 1
               ELSE IF GateOpen(h, c)
               THEN last.gen = c /\ h.timesChosen = c + 1
               ELSE last.gen = c - 1 /\ h.timesChosen = c

\* the trace of the example: foo, bar(x), foo, with or without responses, so
\* that entry 1 is foo and entry 2 is bar(x)
NestingExample ==
    InboundKeys = <<strip(PytFoo), strip(CmdBarX), strip(PytFoo)>>

\* C16 as stated: in the example, of two successive resolves that choose foo
\* the second returns the first generation.
FooTwiceReturnsFirst ==
    [][(/\ NestingExample
        /\ Called /\ last.key = 1 /\ last.gen = 0
        /\ last'.op = "readReplayResponses" /\ last'.key = 1)
       => last'.gen = 0]_vars

\* C16, amended: in the example a resolve of foo returns the first generation
\* as long as bar(x) has never been resolved; the first resolve of foo after
\* foo has been chosen once and bar(x) has been resolved at least once, at
\* any earlier time, returns the second generation.
FooGatedByBarEver ==
    (NestingExample /\ Called /\ last.key = 1) =>
        /\ last.before[1] = 0 => (last.gen = 0 /\ last.increment = 1)
        /\ last.before[2] = 0 =>
              /\ last.raised = ""
              /\ last.gen = 0
              /\ responseMap[1].timesChosen = 1
        /\ (last.before[1] = 1 /\ last.before[2] > 0) =>
              (last.gen = 1 /\ last.increment = 1)
        /\ last.gen = 1 => (last.before[1] = 1 /\ last.before[2] > 0)

\* foo is resolved for the third time while bar(x) has never been resolved,
\* and the first generation is returned
FooGatedByBarEverWitness ==
    /\ NestingExample
    /\ Called /\ last.key = 1
    /\ calls = 3
    /\ last.before = <<1, 0>>
    /\ last.gen = 0
    /\ timesChosenOf(responseMap) = <<1, 0>>

\* the entries with a parenthesis in their key that occur in the trace
\* strictly between the r-th and the (r+1)-th occurrence of the key of entry i
SpanEntries(keys, i, r) ==
    {j \in 1..Len(responseMap) :
        /\ contains(responseMap[j].key, "(")
        /\ \E p \in Occurrences(keys, responseMap[j].key) :
              /\ NthOccurrence(keys, responseMap[i].key, r) < p
              /\ p < NthOccurrence(keys, responseMap[i].key, r + 1)}

\* C17 as stated: the intermediate set recorded when a '<-PYT' key without a
\* parenthesis occurs for the (r+1)-th time holds exactly the entries with a
\* parenthesis in their key that occur between its r-th and this occurrence.
IntermediatesAreSpan ==
    LET keys == TraceKeys
    IN  \A i \in 1..Len(responseMap) :
            (startswith(responseMap[i].key, PYT) /\ ~contains(responseMap[i].key, "(")) =>
                /\ Len(responseMap[i].intermediateHandlers)
                      = Len(responseMap[i].responses) - 1
                /\ \A r \in 1..Len(responseMap[i].intermediateHandlers) :
                      Range(responseMap[i].intermediateHandlers[r])
                          = SpanEntries(keys, i, r)

\* the generations of the entries from position i on, counted
RECURSIVE generationsFrom(_)
generationsFrom(i) ==
    IF i > Len(responseMap) THEN 0
    ELSE Len(responseMap[i].responses) + generationsFrom(i + 1)

\* C18: the store holds one entry per distinct canonicalized key of the
\* inbound chunks of the trace, each with at least one generation and with as
\* many generations as there are inbound chunks that carry its key; the
\* generations of all entries are as many as the inbound chunks.
ParseInvariant ==
    LET keys == TraceKeys
    IN  /\ \A i, j \in 1..Len(responseMap) :
              i # j => responseMap[i].key # responseMap[j].key
        /\ {<<responseMap[i].key>> : i \in 1..Len(responseMap)}
              = {keys[p] : p \in Inbound(keys)}
        /\ \A i \in 1..Len(responseMap) :
              /\ Len(responseMap[i].responses) >= 1
              /\ Len(responseMap[i].responses)
                    = Cardinality(Occurrences(keys, responseMap[i].key))
        /\ generationsFrom(1) = Cardinality(Inbound(keys))

\* two entries, one of them with two generations that come from two chunks
\* that differ before canonicalization
ParseInvariantWitness ==
    /\ Len(responseMap) = 2
    /\ \E i \in 1..2 :
          /\ Len(responseMap[i].responses) = 2
          /\ \E p, q \in Occurrences(TraceKeys, responseMap[i].key) :
                trafficList[p] # trafficList[q]

\* the last position of the span of chunks that follows the inbound chunk at p
SpanEnd(keys, p) ==
    LET later == {q \in Inbound(keys) : q > p}
    IN  IF later = {} THEN Len(keys)
        ELSE (CHOOSE q \in later : \A q2 \in later : q <= q2) - 1

Inspected == last.op = "findResponseToTrafficStartingWith"

\* C20: findResponseToTrafficStartingWith leaves the map as it was, cursors
\* included, whatever it returns, so that a resolve made after it finds the
\* state it would have found before it; and a resolve that looks for the
\* closest key leaves the cursor of every entry it does not choose.
InspectionDoesNotConsume ==
    /\ Inspected =>
          /\ CursorsUnchanged
          /\ responseMap = BeforeMap
          /\ Structure(responseMap) = Structure(parseTrafficList(trafficList))
    /\ (Called /\ last.fuzzy) =>
          \A j \in 1..Len(responseMap) :
              j # last.key => responseMap[j].timesChosen = last.before[j]

\* the inspection returns a line of the second generation of an entry with
\* intermediate sets, which a resolve in the same state would consume
InspectionDoesNotConsumeWitness ==
    /\ Inspected
    /\ last.raised = ""
    /\ last.key # 0
    /\ last.gen = 1
    /\ last.responses # <<>>
    /\ last.before[last.key] = 1
    /\ makeResponses(responseMap, last.key, <<>>).increment = 1

\* C26: a call made with exact = TRUE whose key is absent returns the empty
\* list without looking for the closest key, raises nothing (also when exact
\* matching is configured) and changes no cursor; a call whose traffic carries
\* no information does the same, whatever its key.
ExactRequestMissIsEmpty ==
    (Called /\ (~last.hasInfo \/ (last.exact /\ LastPresent = {}))) =>
        /\ last.raised = ""
        /\ last.responses = <<>>
        /\ last.key = 0
        /\ ~last.fuzzy
        /\ CursorsUnchanged

\* an exact request misses under configured exact matching, on a store that
\* holds a key sharing a token with the query and a cursor already advanced
ExactRequestMissIsEmptyWitness ==
    /\ Called
    /\ last.hasInfo
    /\ last.exact
    /\ exactMatching
    /\ LastPresent = {}
    /\ LastTokenMates # {}
    /\ \E i \in 1..Len(responseMap) : responseMap[i].timesChosen > 0
    /\ last.responses = <<>>

\* C27 (as stated): when a call looks for the closest key, no entry of the
\* query's category has a cursor above its number of generations, so that
\* getUnmatchedResponseCount is never negative.
UnmatchedNeverNegative ==
    (Called /\ last.fuzzy) => \A j \in LastCategoryMates : Remaining(j) >= 0

\* C27: getUnmatchedResponseCount is the number of generations minus the
\* cursor and may be negative; the cursor of an entry is at most the number of
\* calls made, so that the figure scored by a call that looks for the closest
\* key is at least the number of generations minus the calls made before it.
UnmatchedBoundedByCalls ==
    /\ \A i \in 1..Len(responseMap) :
           getUnmatchedResponseCount(responseMap[i])
               >= Len(responseMap[i].responses) - calls
    /\ (Called /\ last.fuzzy) =>
           \A j \in LastCategoryMates :
               Remaining(j) >= Len(responseMap[j].responses) - (calls - 1)

\* a call looks for the closest key and scores an entry whose cursor is above
\* its number of generations
UnmatchedBoundedByCallsWitness ==
    /\ FuzzyHit
    /\ \E j \in LastCategoryMates :
           /\ Remaining(j) < 0
           /\ Len(responseMap[j].intermediateHandlers) = 0

\* the entries of the query's category that tie with the entry chosen on the
\* tokens covered, the gaps and the unconsumed generations
LastTies ==
    {j \in LastCategoryMates :
        /\ Common(j) = Common(last.key)
        /\ Gaps(j) = Gaps(last.key)
        /\ Remaining(j) = Remaining(last.key)}

\* C24: among the entries that tie with it on all three criteria, the key
\* chosen by findBestMatch is the one first seen earliest in the trace; the
\* key chosen is the one that findBestMatch gives for the map and the query of
\* the call.
TieKeepsEarliest ==
    FuzzyHit =>
        /\ \A j \in LastTies : last.key <= j
        /\ last.key = findBestMatch(BeforeMap, LastDesc)

\* a call chooses the first of two tied keys of a store of three keys
TieKeepsEarliestWitness ==
    /\ FuzzyHit
    /\ Len(responseMap) = 3
    /\ \E j \in LastTies : j > last.key

\* the lines of the generation that the last call selected
LastLines == responseMap[last.key].responses[last.gen + 1]

\* the lines whose type tag (offsets 2..4) is the typeId of a class supplied
LastKept ==
    SelectSeq(LastLines,
              LAMBDA line : SubSeq(line, 3, 5) \in Range(last.allClasses))

\* C22: a resolve returns, in the order of the lines of the generation
\* selected, a (class, payload) pair for each line whose type tag is the typeId
\* of a class supplied, the payload being the text from offset 6 (one pair per
\* line when the typeIds supplied are distinct); the lines of other types are
\* dropped; the cursor advances by the increment selected, also when no pair
\* is returned.
ResponsesReconstructed ==
    (Called /\ last.key # 0 /\ last.raised = "") =>
        /\ (\A i, j \in 1..Len(last.allClasses) :
                last.allClasses[i] = last.allClasses[j] => i = j)
           => last.responses
                 = [k \in 1..Len(LastKept) |->
                       <<SubSeq(LastKept[k], 3, 5),
                         SubSeq(LastKept[k], 7, Len(LastKept[k]))>>]
        /\ \A k \in 1..Len(last.responses) :
               /\ last.responses[k][1] \in Range(last.allClasses)
               /\ \E n \in 1..Len(LastKept) :
                      /\ last.responses[k][1] = SubSeq(LastKept[n], 3, 5)
                      /\ last.responses[k][2]
                            = SubSeq(LastKept[n], 7, Len(LastKept[n]))
        /\ (LastKept = <<>>) = (last.responses = <<>>)
        /\ responseMap[last.key].timesChosen
              = last.before[last.key] + last.increment

\* a generation of an OUT line and an ERR line in either order, resolved with
\* the OUT class alone: one pair comes back and the cursor advances
ResponsesReconstructedWitness ==
    /\ Called /\ last.key # 0 /\ last.raised = ""
    /\ Len(LastLines) = 2
    /\ Len(LastKept) = 1
    /\ last.responses = << <<OUT, <<"r", "\n">> >> >>
    /\ last.increment = 1
    /\ responseMap[last.key].timesChosen = last.before[last.key] + 1

\* the characters that end a token
Separators == {"/", "(", ")", "\\"} \cup Whitespace

\* the positions of desc at which a maximal run of other characters starts,
\* and the position at which the run that starts at i ends
TokenStarts(desc) ==
    {i \in 1..Len(desc) :
        desc[i] \notin Separators /\ (i = 1 \/ desc[i - 1] \in Separators)}

TokenEnd(desc, i) ==
    CHOOSE j \in i..Len(desc) :
        /\ \A k \in i..j : desc[k] \notin Separators
        /\ (j = Len(desc) \/ desc[j + 1] \in Separators)

\* the maximal runs of desc, from left to right
FlatSplit(desc) ==
    LET starts == TokenStarts(desc)
        nth(k) == CHOOSE i \in starts :
                      Cardinality({h \in starts : h < i}) = k - 1
    IN  [k \in 1..Cardinality(starts) |->
            SubSeq(desc, nth(k), TokenEnd(desc, nth(k)))]

\* the orders in which the four separator characters may be applied
SeparatorOrders ==
    {<<a, b, c, d>> : a, b, c, d \in {"/", "(", ")", "\\"}}

\* C25: getWords returns, from left to right, the maximal substrings of the
\* key that hold no separator character and no whitespace: no token is empty,
\* no token holds a separator, and the result is that of applying the four
\* separator characters in any order before whitespace.
WordsAreFlatSplit ==
    (last.op = "getWords") =>
        /\ last.words = FlatSplit(last.description)
        /\ \A k \in 1..Len(last.words) :
               /\ last.words[k] # <<>>
               /\ Range(last.words[k]) \cap Separators = {}
        /\ \A order \in SeparatorOrders :
               Range(order) = {"/", "(", ")", "\\"}
                   => _getWords(last.description, Append(order, None))
                          = last.words

\* a key of two tokens with a separator character and whitespace between them
WordsAreFlatSplitWitness ==
    /\ last.op = "getWords"
    /\ last.description = <<"a", "/", " ", "b">>
    /\ last.words = << <<"a">>, <<"b">> >>

\* the number of calls that returned generation g (-1: ended with IndexError)
RECURSIVE ReturnedFrom(_, _)
ReturnedFrom(t, g) ==
    IF t > NumThreads THEN 0
    ELSE Cardinality({k \in 1..Len(threads[t].results) :
                         threads[t].results[k] = g})
         + ReturnedFrom(t + 1, g)

\* the calls that have returned or raised, and those under way
RECURSIVE CompletedFrom(_)
CompletedFrom(t) ==
    IF t > NumThreads THEN 0
    ELSE Len(threads[t].results) + CompletedFrom(t + 1)

UnderWay == {t \in Threads : threads[t].pc # "idle"}

\* C21: when every call is made under the lock, the calls on a key of n
\* generations without intermediate sets return, as long as no more than n
\* have been made, the generations 0, 1, ... once each, and the cursor is the
\* number of calls made; without the lock a call may run between the reads
\* and the store of another, so that a generation is returned twice or an
\* increment is lost: the cursor is then at most the number of calls that
\* have completed, never more.
SerializedResolvesReturnEachOnce ==
    \A i \in 1..Len(responseMap) :
        LET n == Len(responseMap[i].responses)
            done == CompletedFrom(1)
        IN  /\ responseMap[i].timesChosen <= done
            /\ lock.used =>
                   /\ Cardinality(UnderWay) <= 1
                   /\ responseMap[i].timesChosen = done
                   /\ ReturnedFrom(1, -1) = 0
                   /\ done <= n =>
                          /\ \A g \in 0..(done - 1) : ReturnedFrom(1, g) = 1
                          /\ \A g \in done..(n - 1) : ReturnedFrom(1, g) = 0

\* two calls made without the lock on a key of two generations have both
\* returned generation 0 and the cursor is 1
UnserializedResolvesCollide ==
    /\ ~lock.used
    /\ Len(responseMap) = 1
    /\ Len(responseMap[1].responses) = 2
    /\ CompletedFrom(1) = 2
    /\ ReturnedFrom(1, 0) = 2
    /\ responseMap[1].timesChosen = 1

\* the printed lines of the commands that name an idle handler which had not
\* exited when the command was reached and has not exited since
WaitsUnderWay ==
    {k \in 1..Len(stdout) :
        /\ replayScript.commands[stdout[k].index] \in stdout[k].pending
        /\ replayScript.commands[stdout[k].index] \in pendingHandlers}

\* C23 (as stated): after the script reaches the command of an idle handler
\* that has not exited, no later command is generated until the callback of
\* that handler has returned gtk.FALSE; the commands are generated in the
\* order of the file, each at most once, and gtk holds at most one
\* runCommands callback.
ScriptWaitsForIdleHandler ==
    /\ \A k \in WaitsUnderWay : k = Len(stdout)
    /\ \A k \in 1..(Len(stdout) - 1) : stdout[k].index < stdout[k + 1].index
    /\ idleQueue.runCommands <= 1

====
